---- MODULE Spec2Model ----
(***************************************************************************)
(* Simulation core of src/src/components/GameEngine.tsx: the per-frame     *)
(* game loop, the player controller, the collectors, the enemy AI, the     *)
(* particle store and the UI commands (pause, reset, key events).          *)
(*                                                                         *)
(* Numbers.  Every length and velocity is held in hundredths of a pixel    *)
(* (PX == 100), so GRAVITY 0.8 is 80 and a player 32 px wide is 3200.      *)
(* The two products of the code that leave that grid, velocityX * 0.85     *)
(* and velocityY * 0.5, are truncated toward zero to a hundredth.          *)
(* gameState.time counts sixtieths of a second; floatOffset counts tenths  *)
(* of a radian.                                                            *)
(*                                                                         *)
(* React.  gameLoop, updateTokens, updateEnemies and updatePowerUps read   *)
(* `player` and `gameState` from the closure of the last render, that is   *)
(* the state left by the previous frame; setPlayer(prev => ...) updaters   *)
(* are applied to the queued state in call order.  One frame is one        *)
(* atomic action: React commits all of a frame's updates before the next   *)
(* animation frame callback runs.                                          *)
(***************************************************************************)
EXTENDS Integers, Naturals, Sequences, FiniteSets, TLC

VARIABLES gameState, player, platforms, tokens, enemies, powerUps,
          particles, keys, glitchTimers, frames, keyEvents

vars == <<gameState, player, platforms, tokens, enemies, powerUps,
          particles, keys, glitchTimers, frames, keyEvents>>

(* ------------------------------ bounds --------------------------------- *)
\* animation frames explored from an initial state
MaxFrames == 2
\* key events delivered from an initial state
MaxKeyEvents == 1

(* ----------------------------- constants ------------------------------- *)
PX == 100
CANVAS_WIDTH == 1200
CANVAS_HEIGHT == 600
GRAVITY == 80
JUMP_FORCE == -1500
MOVE_SPEED == 500
DASH_SPEED == 1200
COYOTE_TIME == 8
JUMP_BUFFER_TIME == 8
acceleration == 80
DASH_COOLDOWN == 60
INVULNERABLE_TIME == 120
ENEMY_SCORE == 100
POWERUP_SCORE == 200
SHAKE_DEFEAT == 15
SHAKE_FALL == 20
SHAKE_DAMAGE == 25
PARTICLE_LIFE == 60
SPAWN_X == 100
SPAWN_Y == 400
GOAL_X == 1150
GOAL_Y == 450

\* the logical keys; 'arrowleft', 'arrowright', 'arrowup' and ' ' are
\* second bindings of a, d and w and take the same branches
Keys == {"a", "d", "w", "shift"}

\* the values Math.random() can give a wooZombie's new velocity,
\* (Math.random() - 0.5) * 1, sampled
ZombieVelocities == {-40}

(* ------------------------------ helpers -------------------------------- *)
Max(a, b) == IF a >= b THEN a ELSE b
Min(a, b) == IF a <= b THEN a ELSE b
Abs(a) == IF a >= 0 THEN a ELSE -a
\* a * num / den, truncated toward zero
MulDiv(a, num, den) == IF a >= 0 THEN (a * num) \div den
                                 ELSE -(((-a) * num) \div den)

RECURSIVE Repeat(_, _)
Repeat(e, n) == IF n <= 0 THEN <<>> ELSE <<e>> \o Repeat(e, n - 1)

\* ANIMATION_SPEEDS[state]; the table has no entry for 'dashing', so the
\* comparison `timer >= undefined` is false and -1 stands for "never"
ANIMATION_SPEEDS(state) ==
    CASE state = "idle" -> 60
      [] state = "running" -> 8
      [] state = "jumping" -> 1
      [] state = "damage" -> 30
      [] OTHER -> -1

\* 50 * sin(n / 10) rounded to a hundredth of a pixel: Math.sin(floatOffset) * 0.5,
\* tabulated over one period of 63 tenths of a radian
SinTable ==
    << 0, 5, 10, 15, 19, 24, 28, 32, 36, 39, 42, 45, 47, 48, 49, 50, 50, 50,
       49, 47, 45, 43, 40, 37, 34, 30, 26, 21, 17, 12, 7, 2, -3, -8, -13, -18,
       -22, -26, -31, -34, -38, -41, -44, -46, -48, -49, -50, -50, -50, -49,
       -48, -46, -44, -42, -39, -35, -32, -28, -23, -19, -14, -9, -4 >>
SinHalf(n) == SinTable[(n % 63) + 1]

(* --------------------------- level at load ----------------------------- *)
Plat(x, y, w, h, t) ==
    [x |-> x * PX, y |-> y * PX, width |-> w * PX, height |-> h * PX, type |-> t,
     moveSpeed |-> 0, moveDirection |-> 1, originalX |-> 0, moveRange |-> 0]

InitPlatforms ==
    << Plat(0, 550, 300, 50, "normal"),
       Plat(400, 450, 200, 20, "normal"),
       Plat(700, 350, 150, 20, "crumbling"),
       [Plat(950, 250, 200, 20, "moving") EXCEPT !.moveSpeed = 1 * PX,
            !.originalX = 950 * PX, !.moveRange = 100 * PX],
       Plat(1150, 550, 50, 50, "normal"),
       Plat(300, 350, 80, 20, "normal"),
       Plat(600, 500, 120, 20, "normal"),
       Plat(850, 400, 80, 20, "crumbling") >>

Tok(x, y, t, v) ==
    [x |-> x * PX, y |-> y * PX, width |-> 20 * PX, height |-> 20 * PX,
     collected |-> FALSE, type |-> t, value |-> v, animationFrame |-> 0]

InitTokens ==
    << Tok(450, 400, "shopify", 10), Tok(750, 300, "shopify", 10),
       Tok(1000, 200, "gem", 50), Tok(200, 500, "shopify", 10),
       Tok(320, 300, "shopify", 10), Tok(620, 450, "gem", 50) >>

Enemy(x, y, w, h, vx, t, hp, st) ==
    [x |-> x * PX, y |-> y * PX, width |-> w * PX, height |-> h * PX,
     velocityX |-> vx, velocityY |-> 0, type |-> t, health |-> hp,
     active |-> TRUE, animationFrame |-> 0, animationTimer |-> 0,
     state |-> st, attackCooldown |-> 0, floatOffset |-> 0]

InitEnemies ==
    << Enemy(500, 400, 32, 32, -100, "magentoBot", 2, "walk"),
       Enemy(800, 300, 40, 24, 0, "salesforceKraken", 3, "idle"),
       Enemy(650, 450, 28, 36, 50, "wooZombie", 2, "walk") >>

Pow(x, y, t) ==
    [x |-> x * PX, y |-> y * PX, width |-> 24 * PX, height |-> 24 * PX,
     type |-> t, collected |-> FALSE, duration |-> 0, animationFrame |-> 0]

InitPowerUps ==
    << Pow(600, 400, "themeBooster"), Pow(350, 300, "checkoutDash") >>

InitPlayer ==
    [x |-> SPAWN_X * PX, y |-> SPAWN_Y * PX, width |-> 32 * PX, height |-> 48 * PX,
     velocityX |-> 0, velocityY |-> 0, onGround |-> FALSE, facing |-> "right",
     state |-> "idle", canDoubleJump |-> TRUE, hasDoubleJumped |-> FALSE,
     dashCooldown |-> 0, health |-> 3, coyoteTime |-> 0, jumpBuffer |-> 0,
     animationFrame |-> 0, animationTimer |-> 0, invulnerable |-> 0]

\* level, currentLevel, cameraX and the two audio flags are left out: no
\* operation of the simulation reads them
InitGameState ==
    [score |-> 0, tokens |-> 0, time |-> 0, paused |-> FALSE,
     gameOver |-> FALSE, victory |-> FALSE, screenShake |-> 0]

(* --------------------------- particle system --------------------------- *)
\* addParticles that gives a particle two seconds to live
addParticles_LongLife(x, y, count, type, color) ==
    Repeat([x |-> x, y |-> y, life |-> 2 * PARTICLE_LIFE, maxLife |-> PARTICLE_LIFE,
            color |-> color, type |-> type], count)

\* a particle keeps the centre of its burst; the jitter, velocity and size
\* are Math.random() draws that only the drawing code reads
addParticles(x, y, count, type, color) ==
    Repeat([x |-> x, y |-> y, life |-> PARTICLE_LIFE, maxLife |-> PARTICLE_LIFE,
            color |-> color, type |-> type], count)

\* updateParticles that ages the particles and removes none
updateParticles_NoExpiry(ps) ==
    [i \in 1..Len(ps) |-> [ps[i] EXCEPT !.life = @ - 1]]

updateParticles(ps) ==
    LET aged == [i \in 1..Len(ps) |-> [ps[i] EXCEPT !.life = @ - 1]]
    IN  SelectSeq(aged, LAMBDA q : q.life > 0)

(* ------------------------------ collision ------------------------------ *)
\* checkCollision that counts rectangles sharing an edge
checkCollision_Closed(rect1, rect2) ==
    /\ rect1.x <= rect2.x + rect2.width
    /\ rect1.x + rect1.width >= rect2.x
    /\ rect1.y <= rect2.y + rect2.height
    /\ rect1.y + rect1.height >= rect2.y

checkCollision(rect1, rect2) ==
    /\ rect1.x < rect2.x + rect2.width
    /\ rect1.x + rect1.width > rect2.x
    /\ rect1.y < rect2.y + rect2.height
    /\ rect1.y + rect1.height > rect2.y

(* --------------------------- player controller ------------------------- *)
\* updatePlayer, "Update animation"
Animate(p) ==
    IF ANIMATION_SPEEDS(p.state) >= 0 /\ p.animationTimer + 1 >= ANIMATION_SPEEDS(p.state)
    THEN [p EXCEPT !.animationFrame = (@ + 1) % 4, !.animationTimer = 0]
    ELSE [p EXCEPT !.animationTimer = @ + 1]

\* Friction that never slows the player
Friction_None(v) == v

\* updatePlayer, "Handle input with acceleration"
Friction(v) == MulDiv(v, 85, 100)

HandleInput(p, ks) ==
    IF "a" \in ks
    THEN [p EXCEPT !.velocityX = Max(@ - acceleration, -MOVE_SPEED),
                   !.facing = "left",
                   !.state = IF p.onGround THEN "running" ELSE @]
    ELSE IF "d" \in ks
    THEN [p EXCEPT !.velocityX = Min(@ + acceleration, MOVE_SPEED),
                   !.facing = "right",
                   !.state = IF p.onGround THEN "running" ELSE @]
    ELSE LET v == Friction(p.velocityX)
         IN  IF p.onGround /\ Abs(v) < 10
             THEN [p EXCEPT !.velocityX = 0, !.state = "idle"]
             ELSE [p EXCEPT !.velocityX = v]

\* CoyoteTime that never refreshes: it only counts down
CoyoteTime_NoRefresh(p) ==
    IF p.coyoteTime > 0 THEN [p EXCEPT !.coyoteTime = @ - 1] ELSE p

\* updatePlayer, "Coyote time"
CoyoteTime(p) ==
    IF p.onGround
    THEN [p EXCEPT !.coyoteTime = COYOTE_TIME, !.hasDoubleJumped = FALSE]
    ELSE IF p.coyoteTime > 0 THEN [p EXCEPT !.coyoteTime = @ - 1] ELSE p

\* updatePlayer, "Jump buffer"
JumpBuffer(p) ==
    IF p.jumpBuffer > 0 THEN [p EXCEPT !.jumpBuffer = @ - 1] ELSE p

\* CanJump that lets a jump execute with an empty buffer
CanJump_EmptyBuffer(p) ==
    /\ p.jumpBuffer >= 0
    /\ (p.coyoteTime > 0 \/ (~p.hasDoubleJumped /\ p.canDoubleJump))

\* the condition under which a buffered jump executes
CanJump(p) ==
    /\ p.jumpBuffer > 0
    /\ (p.coyoteTime > 0 \/ (~p.hasDoubleJumped /\ p.canDoubleJump))

\* Jump that never records the double jump
Jump_KeepsDoubleJump(p) ==
    IF CanJump(p)
    THEN [p EXCEPT !.velocityY = JUMP_FORCE, !.onGround = FALSE,
                   !.coyoteTime = 0, !.jumpBuffer = 0, !.state = "jumping"]
    ELSE p

\* updatePlayer, "Jumping with coyote time and jump buffer"
Jump(p) ==
    IF CanJump(p)
    THEN [p EXCEPT !.hasDoubleJumped =
                       IF p.coyoteTime <= 0 /\ p.canDoubleJump THEN TRUE ELSE @,
                   !.velocityY = JUMP_FORCE,
                   !.onGround = FALSE,
                   !.coyoteTime = 0,
                   !.jumpBuffer = 0,
                   !.state = "jumping"]
    ELSE p

\* updatePlayer, "Variable jump height - cut jump short if key released"
JumpCut(p, ks) ==
    IF "w" \notin ks /\ p.velocityY < -5 * PX
    THEN [p EXCEPT !.velocityY = MulDiv(@, 1, 2)]
    ELSE p

\* the condition under which the dash fires
CanDash(p, ks) == "shift" \in ks /\ p.dashCooldown <= 0

\* Dash that fires without re-arming the cooldown
Dash_NoCooldown(p, ks) ==
    IF CanDash(p, ks)
    THEN [p EXCEPT !.velocityX = IF p.facing = "right" THEN DASH_SPEED ELSE -DASH_SPEED,
                   !.state = "dashing"]
    ELSE p

\* updatePlayer, "Dashing"
Dash(p, ks) ==
    IF CanDash(p, ks)
    THEN [p EXCEPT !.velocityX = IF p.facing = "right" THEN DASH_SPEED ELSE -DASH_SPEED,
                   !.state = "dashing",
                   !.dashCooldown = DASH_COOLDOWN]
    ELSE p

\* ApplyGravity that forces the jumping state on a dashing player too
ApplyGravity_ForcesJumping(p) ==
    IF ~p.onGround
    THEN [p EXCEPT !.velocityY = @ + GRAVITY, !.state = "jumping"]
    ELSE p

\* updatePlayer, "Apply gravity"
ApplyGravity(p) ==
    IF ~p.onGround
    THEN [p EXCEPT !.velocityY = @ + GRAVITY,
                   !.state = IF @ # "dashing" THEN "jumping" ELSE @]
    ELSE p

\* updatePlayer, "Update position"
Integrate(p) == [p EXCEPT !.x = @ + p.velocityX, !.y = @ + p.velocityY]

\* the player as it enters the platform loop, and the dash burst
BeforePlatforms(p, ks) ==
    LET p1 == JumpBuffer(CoyoteTime(HandleInput(Animate(p), ks)))
        p2 == JumpCut(Jump(p1), ks)
        p3 == Dash(p2, ks)
    IN  [p |-> Integrate(ApplyGravity(p3)),
         sparks |-> IF CanDash(p2, ks)
                    THEN addParticles(p3.x + p3.width \div 2, p3.y + p3.height \div 2,
                                      8, "spark", "#7C3AED")
                    ELSE <<>>]

\* MovePlatform that never reverses
MovePlatform_NoTurn(pl) ==
    IF pl.type = "moving" /\ pl.moveSpeed # 0 /\ pl.moveRange # 0
    THEN [pl EXCEPT !.x = @ + pl.moveSpeed * pl.moveDirection]
    ELSE pl

\* platforms.forEach, "Update moving platforms"
MovePlatform(pl) ==
    IF pl.type = "moving" /\ pl.moveSpeed # 0 /\ pl.moveRange # 0
    THEN LET x == pl.x + pl.moveSpeed * pl.moveDirection
         IN  [pl EXCEPT !.x = x,
                        !.moveDirection =
                            IF x >= pl.originalX + pl.moveRange \/ x <= pl.originalX
                            THEN -@ ELSE @]
    ELSE pl

\* which branch of the collision response the loop body takes for a
\* player box that overlaps the platform
Resolution(p, pl) ==
    IF p.velocityY > 0 /\ p.y < pl.y THEN "land"
    ELSE IF p.velocityY < 0 /\ p.y > pl.y THEN "below"
    ELSE IF p.velocityX > 0 THEN "left"
    ELSE IF p.velocityX < 0 THEN "right"
    ELSE "none"

\* the collision response of the loop body
Resolve(p, pl) ==
    LET r == Resolution(p, pl)
    IN  CASE r = "land"  -> [p EXCEPT !.y = pl.y - p.height, !.velocityY = 0,
                                      !.onGround = TRUE]
          [] r = "below" -> [p EXCEPT !.y = pl.y + pl.height, !.velocityY = 0]
          [] r = "left"  -> [p EXCEPT !.x = pl.x - p.width, !.velocityX = 0]
          [] r = "right" -> [p EXCEPT !.x = pl.x + pl.width, !.velocityX = 0]
          [] OTHER -> p

\* platforms.forEach(...) from platform i on: the player, the platforms
\* and the landing dust it leaves; log records, for every platform the
\* player overlapped when it was tested, the branch taken and the player
\* after it
RECURSIVE PlatformLoop(_, _, _, _, _, _)
PlatformLoop(p, pls, i, wasOnGround, dust, log) ==
    IF i > Len(pls) THEN [p |-> p, platforms |-> pls, dust |-> dust, log |-> log]
    ELSE LET pl == MovePlatform(pls[i])
             hit == checkCollision(p, pl)
             q == IF hit THEN Resolve(p, pl) ELSE p
             d == IF hit /\ Resolution(p, pl) = "land" /\ ~wasOnGround
                  THEN addParticles(q.x + q.width \div 2, q.y + q.height, 5,
                                    "dust", "#8B4513")
                  ELSE <<>>
             e == IF hit
                  THEN << [platform |-> pl, resolution |-> Resolution(p, pl), after |-> q] >>
                  ELSE <<>>
         IN  PlatformLoop(q, [pls EXCEPT ![i] = pl], i + 1, wasOnGround,
                          dust \o d, log \o e)

\* ClampX without the test of the right wall
ClampX_LeftOnly(p) == IF p.x < 0 THEN [p EXCEPT !.x = 0] ELSE p

\* updatePlayer, "Boundary checks", horizontal part
ClampX(p) ==
    LET q == IF p.x < 0 THEN [p EXCEPT !.x = 0] ELSE p
    IN  IF q.x + q.width > CANVAS_WIDTH * PX
        THEN [q EXCEPT !.x = CANVAS_WIDTH * PX - q.width] ELSE q

\* "Player fell off the world"
Fell(p) == p.y > CANVAS_HEIGHT * PX

\* FallDamage that leaves the player where it fell
FallDamage_NoRespawn(p) ==
    [p EXCEPT !.health = @ - 1, !.state = "damage",
              !.invulnerable = INVULNERABLE_TIME]

\* the body of the fall branch
FallDamage(p) ==
    [p EXCEPT !.health = @ - 1, !.x = SPAWN_X * PX, !.y = SPAWN_Y * PX,
              !.velocityX = 0, !.velocityY = 0, !.state = "damage",
              !.invulnerable = INVULNERABLE_TIME]

\* Cooldowns without the tests against 0
Cooldowns_Unguarded(p) ==
    [p EXCEPT !.dashCooldown = @ - 1, !.invulnerable = @ - 1]

\* updatePlayer, "Update cooldowns and timers"
Cooldowns(p) ==
    [p EXCEPT !.dashCooldown = IF @ > 0 THEN @ - 1 ELSE @,
              !.invulnerable = IF @ > 0 THEN @ - 1 ELSE @]

\* the setPlayer updater of updatePlayer: the new player, the platforms it
\* moved, the particles it spawned, and whether it fell
updatePlayer(prev, ks, pls) ==
    LET a == BeforePlatforms(prev, ks)
        wasOnGround == a.p.onGround
        l == PlatformLoop([a.p EXCEPT !.onGround = FALSE], pls, 1, wasOnGround, <<>>, <<>>)
        c == ClampX(l.p)
        f == IF Fell(c) THEN FallDamage(c) ELSE c
    IN  [player |-> Cooldowns(f), platforms |-> l.platforms,
         spawned |-> a.sparks \o l.dust, fell |-> Fell(c), log |-> l.log]

(* ------------------------ token / power-up collector ------------------- *)
\* TokenHits without the test of the collected flag
TokenHits_Again(toks, pl) ==
    {i \in 1..Len(toks) : checkCollision(pl, toks[i])}

\* the tokens the rendered player overlaps and has not collected yet
TokenHits(toks, pl) ==
    {i \in 1..Len(toks) : ~toks[i].collected /\ checkCollision(pl, toks[i])}

\* the setTokens updater of updateTokens
updateTokens(toks, pl) ==
    [i \in 1..Len(toks) |->
        [toks[i] EXCEPT !.animationFrame = (@ + 1) % 60,
                        !.collected = IF i \in TokenHits(toks, pl) THEN TRUE ELSE @]]

\* TokenScore that counts every token as 1
TokenScore_Flat(tok) == 1

\* the score one collected token adds: gs.score + token.value
TokenScore(tok) == tok.value

\* the token count one collected token adds: gs.tokens + 1
TokenCount(tok) == 1

RECURSIVE SumOver(_, _)
\* the sum of vals[i] over the indices i in S
SumOver(vals, S) ==
    IF S = {} THEN 0
    ELSE LET i == CHOOSE j \in S : TRUE
         IN  vals[i] + SumOver(vals, S \ {i})

RECURSIVE Bursts(_, _, _, _, _, _)
\* the particles addParticles spawns at the centre of each entity of seq
\* whose index is in S, in array order; colors[i] is the colour of burst i
Bursts(seq, S, i, count, type, colors) ==
    IF i > Len(seq) THEN <<>>
    ELSE (IF i \in S
          THEN addParticles(seq[i].x + seq[i].width \div 2,
                            seq[i].y + seq[i].height \div 2,
                            count, type, colors[i])
          ELSE <<>>) \o Bursts(seq, S, i + 1, count, type, colors)

TokenColor(tok) == IF tok.type = "shopify" THEN "#00D4AA" ELSE "#FFD700"
PowerUpColor(pu) == "#7C3AED"
EnemyColor(e) == "#FF4444"

\* the power-ups the rendered player overlaps and has not collected yet
PowerUpHits(pus, pl) ==
    {i \in 1..Len(pus) : ~pus[i].collected /\ checkCollision(pl, pus[i])}

\* updatePowerUps that starts a 300-tick effect timer on the power-up
updatePowerUps_StartsTimer(pus, pl) ==
    [i \in 1..Len(pus) |->
        [pus[i] EXCEPT !.animationFrame = (@ + 1) % 60,
                       !.collected = IF i \in PowerUpHits(pus, pl) THEN TRUE ELSE @,
                       !.duration = IF i \in PowerUpHits(pus, pl) THEN 300 ELSE @]]

\* the setPowerUps updater of updatePowerUps
updatePowerUps(pus, pl) ==
    [i \in 1..Len(pus) |->
        [pus[i] EXCEPT !.animationFrame = (@ + 1) % 60,
                       !.collected = IF i \in PowerUpHits(pus, pl) THEN TRUE ELSE @]]

(* ------------------------------- enemy AI ------------------------------ *)
\* "Update animation" of updateEnemies
AnimateEnemy(e) ==
    IF e.animationTimer + 1 >= 15
    THEN [e EXCEPT !.animationFrame = (@ + 1) % 4, !.animationTimer = 0]
    ELSE [e EXCEPT !.animationTimer = @ + 1]

\* "Bounce off edges" / "Boundary check"
Bounce(e) ==
    IF e.x <= 0 \/ e.x >= CANVAS_WIDTH * PX - e.width
    THEN [e EXCEPT !.velocityX = -@] ELSE e

\* "AI behavior based on enemy type"; glitch is the outcome of
\* Math.random() < 0.02, turn the outcome of Math.random() < 0.01: <<v>>
\* with the new velocity v, or <<>> when the draw fails
MoveEnemy(e, glitch, turn) ==
    CASE e.type = "magentoBot" ->
            LET m == [e EXCEPT !.x = @ + e.velocityX]
                g == IF glitch THEN [m EXCEPT !.velocityX = 0, !.state = "damage"] ELSE m
            IN  Bounce(g)
      [] e.type = "salesforceKraken" ->
            [e EXCEPT !.floatOffset = @ + 1,
                      !.y = @ + SinHalf(e.floatOffset + 1),
                      !.state = "idle"]
      [] e.type = "wooZombie" ->
            LET m == [e EXCEPT !.x = @ + e.velocityX]
                g == IF Len(turn) > 0 THEN [m EXCEPT !.velocityX = turn[1]] ELSE m
            IN  Bounce(g)
      [] OTHER -> e

\* Advance without the test of the active flag
Advance_MovesInactive(e, glitch, turn) == MoveEnemy(AnimateEnemy(e), glitch, turn)

\* an enemy after its animation and movement, before the player test
Advance(e, glitch, turn) ==
    IF ~e.active THEN e ELSE MoveEnemy(AnimateEnemy(e), glitch, turn)

\* EnemyHit without the invulnerability test
EnemyHit_IgnoresInvulnerable(pl, e) == e.active /\ checkCollision(pl, e)

\* "Check collision with player": the test of updateEnemies, on the
\* rendered player and the enemy after its movement
EnemyHit(pl, e) == e.active /\ checkCollision(pl, e) /\ pl.invulnerable <= 0

\* the outcome of a hit is decided by the rendered player's state
HitDefeats(pl) == pl.state = "dashing"

\* TakeDamage with the sign of the health change flipped
TakeDamage_Heals(p) ==
    [p EXCEPT !.health = @ + 1, !.state = "damage",
              !.invulnerable = INVULNERABLE_TIME,
              !.velocityX = IF p.facing = "right" THEN -5 * PX ELSE 5 * PX]

\* "Player takes damage": the setPlayer updater of updateEnemies
TakeDamage(p) ==
    [p EXCEPT !.health = @ - 1, !.state = "damage",
              !.invulnerable = INVULNERABLE_TIME,
              !.velocityX = IF p.facing = "right" THEN -5 * PX ELSE 5 * PX]

RECURSIVE TakeDamageTimes(_, _)
TakeDamageTimes(p, n) == IF n <= 0 THEN p ELSE TakeDamageTimes(TakeDamage(p), n - 1)

\* Defeat that leaves the enemy active
Defeat_KeepsActive(e) == e

\* "Player defeats enemy while dashing"
Defeat(e) == [e EXCEPT !.active = FALSE]

(* ------------------------------ game loop ------------------------------ *)
\* AtGoal with the two comparisons joined by "or"
AtGoal_Either(pl) == pl.x >= GOAL_X * PX \/ pl.y >= GOAL_Y * PX

\* "Check victory condition"
AtGoal(pl) == pl.x >= GOAL_X * PX /\ pl.y >= GOAL_Y * PX

\* "Check game over condition"
Dead(pl) == pl.health <= 0

\* Running without the pause test
Running_IgnoresPause(gs) == ~gs.gameOver

\* the guard of the update phase
Running(gs) == ~gs.paused /\ ~gs.gameOver

\* a shake event that adds its amount to the shake that is left
Shake_Accumulates(gs, amount) == [gs EXCEPT !.screenShake = @ + amount]

\* the setGameState updater of a shake event: screenShake: amount
Shake(gs, amount) == [gs EXCEPT !.screenShake = amount]

\* n shake events of one kind, one per enemy the player touched
RECURSIVE ShakeTimes(_, _, _)
ShakeTimes(gs, amount, n) ==
    IF n <= 0 THEN gs ELSE ShakeTimes(Shake(gs, amount), amount, n - 1)

\* render, "Apply screen shake": the guard reads the rendered gameState,
\* the updater the queued one
ShakeDecay(rendered, gs) ==
    IF rendered.screenShake > 0
    THEN [gs EXCEPT !.screenShake = Max(0, @ - 1)]
    ELSE gs

ActiveOfType(t) == {i \in 1..Len(enemies) : enemies[i].active /\ enemies[i].type = t}

\* the outcomes of the Math.random() draws of one frame
Glitches == SUBSET ActiveOfType("magentoBot")
Turns == [ActiveOfType("wooZombie") -> {<<>>} \cup {<<v>> : v \in ZombieVelocities}]

\* the enemies after their animation and movement of this frame
Advanced(glitches, turns) ==
    [i \in 1..Len(enemies) |->
        Advance(enemies[i], i \in glitches,
                IF i \in DOMAIN turns THEN turns[i] ELSE <<>>)]

\* the update phase of gameLoop, in call order: updatePlayer,
\* updateTokens, updateEnemies, updatePowerUps, updateParticles, the
\* victory and game-over checks and the timer
UpdatePhase(glitches, turns) ==
    LET up == updatePlayer(player, keys, platforms)
        tHits == TokenHits(tokens, player)
        adv == Advanced(glitches, turns)
        hits == {i \in 1..Len(adv) : EnemyHit(player, adv[i])}
        defeated == IF HitDefeats(player) THEN hits ELSE {}
        damaging == hits \ defeated
        pHits == PowerUpHits(powerUps, player)
        gs1 == IF up.fell THEN Shake(gameState, SHAKE_FALL) ELSE gameState
        gs2 == [gs1 EXCEPT
                  !.tokens = @ + SumOver([i \in 1..Len(tokens) |-> TokenCount(tokens[i])], tHits),
                  !.score = @ + SumOver([i \in 1..Len(tokens) |-> TokenScore(tokens[i])], tHits)]
        gs3 == [ShakeTimes(ShakeTimes(gs2, SHAKE_DAMAGE, Cardinality(damaging)),
                           SHAKE_DEFEAT, Cardinality(defeated))
                   EXCEPT !.score = @ + ENEMY_SCORE * Cardinality(defeated)]
        gs4 == [gs3 EXCEPT !.score = @ + POWERUP_SCORE * Cardinality(pHits)]
        gs5 == [gs4 EXCEPT !.victory = IF AtGoal(player) THEN TRUE ELSE @,
                           !.gameOver = IF Dead(player) THEN TRUE ELSE @,
                           !.time = @ + 1]
        spawned == up.spawned
                   \o Bursts(tokens, tHits, 1, 6, "spark",
                             [i \in 1..Len(tokens) |-> TokenColor(tokens[i])])
                   \o Bursts(adv, defeated, 1, 12, "explosion",
                             [i \in 1..Len(adv) |-> EnemyColor(adv[i])])
                   \o Bursts(powerUps, pHits, 1, 10, "spark",
                             [i \in 1..Len(powerUps) |-> PowerUpColor(powerUps[i])])
    IN  /\ player' = TakeDamageTimes(up.player, Cardinality(damaging))
        /\ platforms' = up.platforms
        /\ tokens' = updateTokens(tokens, player)
        /\ enemies' = [i \in 1..Len(adv) |-> IF i \in defeated THEN Defeat(adv[i]) ELSE adv[i]]
        /\ powerUps' = updatePowerUps(powerUps, player)
        /\ particles' = updateParticles(particles \o spawned)
        /\ gameState' = ShakeDecay(gameState, gs5)
        /\ glitchTimers' = {i \in 1..Len(enemies) :
                               IF enemies[i].active THEN i \in glitches
                                                    ELSE i \in glitchTimers}

\* one animation frame: the update phase when running, then render
gameLoop ==
    /\ frames < MaxFrames
    /\ frames' = frames + 1
    /\ IF Running(gameState)
       THEN \E glitches \in Glitches, turns \in Turns : UpdatePhase(glitches, turns)
       ELSE /\ gameState' = ShakeDecay(gameState, gameState)
            /\ UNCHANGED <<player, platforms, tokens, enemies, powerUps,
                           particles, glitchTimers>>
    /\ UNCHANGED <<keys, keyEvents>>

(* ------------------------------- input --------------------------------- *)
handleKeyDown(k) ==
    /\ keyEvents < MaxKeyEvents
    /\ keyEvents' = keyEvents + 1
    /\ keys' = keys \cup {k}
    /\ player' = IF k = "w" THEN [player EXCEPT !.jumpBuffer = JUMP_BUFFER_TIME]
                            ELSE player
    /\ UNCHANGED <<gameState, platforms, tokens, enemies, powerUps, particles,
                   glitchTimers, frames>>

handleKeyUp(k) ==
    /\ keyEvents < MaxKeyEvents
    /\ k \in keys
    /\ keyEvents' = keyEvents + 1
    /\ keys' = keys \ {k}
    /\ UNCHANGED <<gameState, player, platforms, tokens, enemies, powerUps,
                   particles, glitchTimers, frames>>

(* ----------------------------- UI commands ----------------------------- *)
togglePause ==
    /\ gameState' = [gameState EXCEPT !.paused = ~@]
    /\ UNCHANGED <<player, platforms, tokens, enemies, powerUps, particles,
                   keys, glitchTimers, frames, keyEvents>>

\* ResetEnemy that leaves the active flag as it is
ResetEnemy_KeepsInactive(e) ==
    [e EXCEPT !.health = IF e.type = "salesforceKraken" THEN 3 ELSE 2,
              !.animationFrame = 0,
              !.animationTimer = 0,
              !.state = IF e.type = "salesforceKraken" THEN "idle" ELSE "walk"]

\* the enemy part of resetGame
ResetEnemy(e) ==
    [e EXCEPT !.active = TRUE,
              !.health = IF e.type = "magentoBot" THEN 2
                         ELSE IF e.type = "salesforceKraken" THEN 3 ELSE 2,
              !.animationFrame = 0,
              !.animationTimer = 0,
              !.state = IF e.type = "salesforceKraken" THEN "idle" ELSE "walk"]

\* resetGame that leaves the score as it is
resetGame_KeepsScore ==
    /\ gameState' = [InitGameState EXCEPT !.score = gameState.score]
    /\ player' = InitPlayer
    /\ tokens' = [i \in 1..Len(tokens) |->
                     [tokens[i] EXCEPT !.collected = FALSE, !.animationFrame = 0]]
    /\ enemies' = [i \in 1..Len(enemies) |-> ResetEnemy(enemies[i])]
    /\ powerUps' = [i \in 1..Len(powerUps) |->
                       [powerUps[i] EXCEPT !.collected = FALSE, !.animationFrame = 0]]
    /\ particles' = <<>>
    /\ glitchTimers' = {}
    /\ UNCHANGED <<platforms, keys, frames, keyEvents>>

\* resetGame makes new enemy objects, so a pending glitch timeout no
\* longer reaches a stored enemy
resetGame ==
    /\ gameState' = InitGameState
    /\ player' = InitPlayer
    /\ tokens' = [i \in 1..Len(tokens) |->
                     [tokens[i] EXCEPT !.collected = FALSE, !.animationFrame = 0]]
    /\ enemies' = [i \in 1..Len(enemies) |-> ResetEnemy(enemies[i])]
    /\ powerUps' = [i \in 1..Len(powerUps) |->
                       [powerUps[i] EXCEPT !.collected = FALSE, !.animationFrame = 0]]
    /\ particles' = <<>>
    /\ glitchTimers' = {}
    /\ UNCHANGED <<platforms, keys, frames, keyEvents>>

(* --------------------------- glitch timeout ---------------------------- *)
\* the setTimeout callback of a magentoBot glitch, 500 ms later: it writes
\* to the object the glitch frame made; glitchTimers holds the enemies
\* whose stored object is still that one
glitchTimeout(i) ==
    /\ i \in glitchTimers
    /\ glitchTimers' = glitchTimers \ {i}
    /\ enemies' = IF enemies[i].active
                  THEN [enemies EXCEPT ![i].state = "walk"]
                  ELSE enemies
    /\ UNCHANGED <<gameState, player, platforms, tokens, powerUps, particles,
                   keys, frames, keyEvents>>

(* --------------------------- specification ----------------------------- *)
\* the state after construction (level load)
LevelLoad ==
    /\ gameState = InitGameState
    /\ player = InitPlayer
    /\ platforms = InitPlatforms
    /\ tokens = InitTokens
    /\ enemies = InitEnemies
    /\ powerUps = InitPowerUps
    /\ particles = <<>>
    /\ keys = {}
    /\ glitchTimers = {}
    /\ frames = 0
    /\ keyEvents = 0

(* ------------------------- states in mid-game -------------------------- *)
\* The stores after t frames of a running game in which no Math.random()
\* draw succeeded and nothing was collected or defeated: the closed form
\* of t applications of MovePlatform, Advance and the animation counters.
RECURSIVE SinPart(_)
SinPart(n) == IF n <= 0 THEN 0 ELSE SinHalf(n) + SinPart(n - 1)
\* the kraken's total vertical drift after t frames
SinSum(t) == (t \div 63) * SinPart(63) + SinPart(t % 63)

PlatformsAfter(t) ==
    LET m == t % 200
    IN  [InitPlatforms EXCEPT
            ![4].x = 950 * PX + (IF m <= 100 THEN m ELSE 200 - m) * PX,
            ![4].moveDirection = IF m < 100 THEN 1 ELSE -1]

EnemiesAfter(t) ==
    LET anim(e) == [e EXCEPT !.animationTimer = t % 15,
                             !.animationFrame = (t \div 15) % 4]
    IN  << anim([InitEnemies[1] EXCEPT
                    !.x = IF t <= 500 THEN (500 - t) * PX ELSE (t - 500) * PX,
                    !.velocityX = IF t < 500 THEN -100 ELSE 100]),
           anim([InitEnemies[2] EXCEPT !.floatOffset = t,
                                       !.y = 300 * PX + SinSum(t)]),
           anim([InitEnemies[3] EXCEPT !.x = 650 * PX + 50 * t]) >>

\* a state of a running game after t frames, with the player at pl, the
\* keys ks held, the enemies ens, the tokens of got collected and the
\* screen shake at shake.  The particles earlier frames spawned are ps.
MidGameWith(t, pl, ks, ens, got, shake, ps) ==
    /\ gameState = [InitGameState EXCEPT
                       !.time = t,
                       !.tokens = Cardinality(got),
                       !.score = SumOver([i \in 1..Len(InitTokens) |-> InitTokens[i].value], got),
                       !.screenShake = shake]
    /\ player = pl
    /\ platforms = PlatformsAfter(t)
    /\ tokens = [i \in 1..Len(InitTokens) |->
                    [InitTokens[i] EXCEPT !.animationFrame = t % 60,
                                          !.collected = i \in got]]
    /\ enemies = ens
    /\ powerUps = [i \in 1..Len(InitPowerUps) |->
                      [InitPowerUps[i] EXCEPT !.animationFrame = t % 60]]
    /\ particles = ps
    /\ keys = ks
    /\ glitchTimers = {}
    /\ frames = 0
    /\ keyEvents = 0

\* the same scenario with the particles earlier frames spawned left out:
\* only updateParticles and the drawing code read a particle
MidGame(t, pl, ks, ens, got, shake) ==
    MidGameWith(t, pl, ks, ens, got, shake, <<>>)

\* the player in the air at (x, y), in hundredths of a pixel
Airborne(x, y, vx, vy, facing) ==
    [InitPlayer EXCEPT !.x = x, !.y = y, !.velocityX = vx, !.velocityY = vy,
                       !.facing = facing, !.state = "jumping"]

\* the player walking on a platform whose top is at y + height, on the
\* frame after a landing
Walking(x, y, vx, facing) ==
    [InitPlayer EXCEPT !.x = x, !.y = y, !.velocityX = vx, !.facing = facing,
                       !.onGround = TRUE, !.state = "jumping",
                       !.coyoteTime = COYOTE_TIME - 1]

\* walking left on the platform at (400, 450), past the token at
\* (450, 400), one frame before touching the magentoBot
BotContact ==
    MidGame(120, Walking(410 * PX, 402 * PX, -MOVE_SPEED, "left"), {"a"},
            EnemiesAfter(120), {1}, 0)

\* the same walk, far enough for a dash to start before the contact: one
\* frame before the dash, and one frame later, dashing into the magentoBot
DashContact ==
    \/ MidGame(120, Walking(421 * PX, 402 * PX, -MOVE_SPEED, "left"), {"a", "shift"},
               EnemiesAfter(120), {1}, 0)
    \/ MidGame(121, [Walking(409 * PX, 402 * PX, -DASH_SPEED, "left") EXCEPT
                        !.state = "dashing", !.onGround = FALSE,
                        !.animationFrame = 1, !.coyoteTime = COYOTE_TIME,
                        !.dashCooldown = DASH_COOLDOWN - 1],
               {"a", "shift"}, EnemiesAfter(121), {1}, 0)

\* falling to the right through the gap left of the platform at
\* (400, 450), one frame before touching both the magentoBot, which a
\* glitch stopped at x = 390, and the wooZombie, which has turned left
DoubleContact ==
    MidGame(700, Airborne(355 * PX, 406 * PX, MOVE_SPEED, 720, "right"), {"d"},
            [EnemiesAfter(700) EXCEPT ![1].x = 390 * PX, ![1].velocityX = 0,
                                      ![1].state = "damage",
                                      ![3].x = 38980, ![3].velocityX = -40], {}, 0)

\* falling from the moving platform onto the goal platform, against the
\* right wall: one frame above the goal region, and one frame later
Goal ==
    \/ MidGame(224, Airborne(1168 * PX, 442 * PX, MOVE_SPEED, 1920, "right"), {"d"},
               EnemiesAfter(224), {}, 0)
    \/ MidGame(225, [Airborne(1168 * PX, 462 * PX, MOVE_SPEED, 2000, "right") EXCEPT
                        !.animationFrame = 1], {"d"},
               EnemiesAfter(225), {}, 0)

\* the double contact met with one health point left, the losses before
\* it more than 120 ticks old
LastHealth ==
    MidGame(700, [Airborne(355 * PX, 406 * PX, MOVE_SPEED, 720, "right") EXCEPT
                     !.health = 1], {"d"},
            [EnemiesAfter(700) EXCEPT ![1].x = 390 * PX, ![1].velocityX = 0,
                                      ![1].state = "damage",
                                      ![3].x = 38980, ![3].velocityX = -40], {}, 0)

\* hurt by the shuffling-bot at tick 120, the player has walked off the
\* left end of the platform and is about to leave the world, 30 ticks into
\* its invulnerability window
HurtFall ==
    MidGame(150, [Airborne(305 * PX, 598 * PX, 0, 1200, "left") EXCEPT
                     !.health = 2, !.invulnerable = INVULNERABLE_TIME - 30],
            {}, EnemiesAfter(150), {1}, 0)

\* falling from the moving platform into the goal region with one health
\* point left, on the tick the lurching-zombie reaches the right edge of
\* the world at the same height
GoalContact ==
    MidGame(1043, [Airborne(1168 * PX, 430 * PX, MOVE_SPEED, 2000, "right") EXCEPT
                      !.health = 1], {"d"},
            EnemiesAfter(1043), {}, 0)

\* falling past the right edge of the ground platform with one health
\* point left: one frame before leaving the world, and one frame later,
\* back at the spawn point
Fall ==
    \/ MidGame(400, [Airborne(305 * PX, 598 * PX, 0, 1200, "right") EXCEPT !.health = 1],
               {}, EnemiesAfter(400), {}, 0)
    \/ MidGame(401, [Airborne(SPAWN_X * PX, SPAWN_Y * PX, 0, 0, "right") EXCEPT
                        !.health = 0, !.state = "damage", !.animationFrame = 1,
                        !.invulnerable = INVULNERABLE_TIME - 1],
               {}, EnemiesAfter(401), {}, SHAKE_FALL)

\* falling straight down onto the platform at (300, 350), above a token
\* and a power-up: one frame before overlapping them, and one frame later
Collect ==
    \/ MidGame(150, [Airborne(325 * PX, 250 * PX, 0, 400, "right") EXCEPT
                        !.hasDoubleJumped = TRUE],
               {}, EnemiesAfter(150), {}, 0)
    \/ MidGame(151, [Airborne(325 * PX, 25480, 0, 480, "right") EXCEPT
                        !.hasDoubleJumped = TRUE, !.animationFrame = 1],
               {}, EnemiesAfter(151), {}, 0)

\* rising in place, jump key held, beside the moving platform that is
\* moving left towards the player
Sliver ==
    MidGame(193, Airborne(925 * PX, 253 * PX, 0, -780, "right"), {"w"},
            EnemiesAfter(193), {}, 0)

\* falling onto the token and the gem above the platform at (600, 500),
\* right of the power-up: one frame before overlapping the gem, and one
\* frame later
Gem ==
    \/ MidGame(150, Airborne(630 * PX, 400 * PX, 0, 560, "right"), {},
               EnemiesAfter(150), {}, 0)
    \/ MidGame(151, [Airborne(630 * PX, 40640, 0, 640, "right") EXCEPT
                        !.animationFrame = 1],
               {}, EnemiesAfter(151), {}, 0)

\* the fall from the spawn point at level load, no key touched: one frame
\* before landing on the ground platform
Landing ==
    MidGame(15, [Airborne(SPAWN_X * PX, 496 * PX, 0, 1200, "right") EXCEPT
                    !.animationFrame = 2],
            {}, EnemiesAfter(15), {}, 0)

\* standing where that fall landed, no key touched since level load, one
\* frame before the moving platform turns at its right and at its left end
\* the dust the player standing at the spawn point has raised by tick t: the
\* player lands on the ground platform on every even tick from 16 on, each
\* landing spawns 5 dust particles at its feet, and a particle spawned in the
\* frame that ends at tick f has life 59 - (t - f) at tick t
StandingDust(t) ==
    LET oldest == Max(16, t - 58 + ((t - 58) % 2))
        groups == IF t < oldest THEN 0 ELSE (t - oldest) \div 2 + 1
        born(k) == oldest + 2 * ((k - 1) \div 5)
    IN  [k \in 1..(5 * groups) |->
            [x |-> 116 * PX, y |-> 550 * PX,
             life |-> PARTICLE_LIFE - 1 - (t - born(k)), maxLife |-> PARTICLE_LIFE,
             color |-> "#8B4513", type |-> "dust"]]

\* the player standing at the spawn point at tick 99 among the dust of its
\* last 29 landings, the oldest of which expires two ticks later
Dusty ==
    MidGameWith(99, [InitPlayer EXCEPT !.y = 502 * PX, !.animationFrame = 1,
                                       !.coyoteTime = COYOTE_TIME],
                {}, EnemiesAfter(99), {}, 0, StandingDust(99))

\* the player left standing at the spawn point since the level load, one
\* tick before the shuffling-bot reaches the left edge of the world (tick
\* 500) and one tick before the lurching-zombie reaches the right edge
\* (tick 1044)
AtWall ==
    \E t \in {499, 1043} :
        MidGameWith(t, [InitPlayer EXCEPT !.y = 502 * PX, !.animationFrame = 1,
                                          !.coyoteTime = COYOTE_TIME],
                    {}, EnemiesAfter(t), {}, 0, StandingDust(t))

\* the player standing at the spawn point at tick 99, the jump key just
\* pressed
Pressed ==
    MidGame(99, [InitPlayer EXCEPT !.y = 502 * PX, !.animationFrame = 1,
                                   !.coyoteTime = COYOTE_TIME,
                                   !.jumpBuffer = JUMP_BUFFER_TIME],
            {"w"}, EnemiesAfter(99), {}, 0)

\* the player falling past the double jump it already used, six ticks
\* after a jump press that found nothing to execute it and was released
Buffered ==
    MidGame(150, [Airborne(325 * PX, 250 * PX, 0, 400, "right") EXCEPT
                     !.hasDoubleJumped = TRUE, !.jumpBuffer = 2],
            {}, EnemiesAfter(150), {}, 0)

Turn ==
    \/ MidGame(99, [InitPlayer EXCEPT !.y = 502 * PX, !.animationFrame = 1,
                                      !.coyoteTime = COYOTE_TIME],
               {}, EnemiesAfter(99), {}, 0)
    \/ MidGame(199, [InitPlayer EXCEPT !.y = 502 * PX, !.animationFrame = 3,
                                       !.coyoteTime = COYOTE_TIME],
               {}, EnemiesAfter(199), {}, 0)

\* standing on the ground platform after a walk to the right, the key
\* released and friction almost done
Slowing ==
    MidGame(60, Walking(150 * PX, 502 * PX, 11, "right"), {}, EnemiesAfter(60), {}, 0)

\* the player at the edges of the magentoBot, which is at x = 372 and
\* moves to 371 before the test, and of the token at (450, 400): a
\* hundredth of a pixel inside each edge, and touching it
Edges ==
    \E q \in { <<38000, 35200>>, <<38000, 35201>>,  \* above the bot
                <<34500, 43200>>, <<34500, 43199>>,  \* below it, in the gap
                <<40300, 40200>>, <<40299, 40200>>,  \* right of it
                <<33900, 41000>>, <<33901, 41000>>,  \* left of it
                <<41800, 40200>>, <<41801, 40200>>,  \* left of the token
                <<47000, 40200>>, <<46999, 40200>>,  \* right of the token
                <<44000, 35200>>, <<44000, 35201>> } :  \* above the token
        MidGame(128, Airborne(q[1], q[2], 0, 0, "right"), {}, EnemiesAfter(128), {}, 0)

\* level load, and the player beside the moving platform
Init == LevelLoad \/ Sliver

\* the player about to touch enemies, or to fall out of the world
InitContact == BotContact \/ DashContact \/ DoubleContact \/ Fall

\* the player about to win or to lose
InitTerminal == Goal \/ Fall

\* the player about to collect, or to defeat an enemy
InitCollect == LevelLoad \/ Collect \/ DashContact

\* the player about to collect a token, a gem or a power-up
InitPickup == Collect \/ Gem \/ BotContact

\* the player at rest, and the moving platform at its turns
InitPlatform == Landing \/ Turn \/ Slowing \/ Sliver
InitParticles == Dusty \/ DashContact
InitController == Turn \/ Buffered \/ DashContact
InitWalls == AtWall \/ BotContact
InitHealth == DoubleContact \/ LastHealth \/ HurtFall
InitOutcome == GoalContact \/ Goal
InitJumps == Pressed \/ Buffered \/ Sliver

Next ==
    \/ gameLoop
    \/ \E k \in Keys : handleKeyDown(k)
    \/ \E k \in Keys : handleKeyUp(k)
    \/ togglePause
    \/ resetGame
    \/ \E i \in 1..Len(enemies) : glitchTimeout(i)

Spec == Init /\ [][Next]_vars
SpecContact == InitContact /\ [][Next]_vars
SpecTerminal == InitTerminal /\ [][Next]_vars
SpecCollect == InitCollect /\ [][Next]_vars
SpecPickup == InitPickup /\ [][Next]_vars
SpecPlatform == InitPlatform /\ [][Next]_vars
SpecParticles == InitParticles /\ [][Next]_vars
SpecController == InitController /\ [][Next]_vars
SpecWalls == InitWalls /\ [][Next]_vars
SpecHealth == InitHealth /\ [][Next]_vars
SpecOutcome == InitOutcome /\ [][Next]_vars
SpecJumps == InitJumps /\ [][Next]_vars

\* a step of gameLoop, told by the frame counter only gameLoop advances;
\* it is enabled exactly when gameLoop is
AnimationFrame == frames < MaxFrames /\ frames' = frames + 1

\* the contact scenarios with the scheduling the browser gives: while the
\* component is mounted requestAnimationFrame keeps calling gameLoop, and
\* a timer that was set fires
SpecGlitch ==
    /\ InitContact
    /\ [][Next]_vars
    /\ WF_frames(AnimationFrame)
    /\ \A i \in 1..Len(InitEnemies) : WF_vars(glitchTimeout(i))
\* the overlap test on its inputs at the edges, applied by the frames
SpecEdges == Edges /\ [][gameLoop]_vars

(* ------------------------------ properties ----------------------------- *)
\* a step that is an animation frame running the update phase
UpdateFrame == frames' = frames + 1 /\ ~gameState.paused /\ ~gameState.gameOver

\* a step that is an animation frame skipping the update phase
IdleFrame == frames' = frames + 1 /\ (gameState.paused \/ gameState.gameOver)

\* the score the tokens and power-ups collected by a step are worth
PickupScore ==
    SumOver([i \in 1..Len(tokens) |-> tokens[i].value],
            {i \in 1..Len(tokens) : ~tokens[i].collected /\ tokens'[i].collected})
    + 200 * Cardinality({i \in 1..Len(powerUps) :
                            ~powerUps[i].collected /\ powerUps'[i].collected})

\* the active enemies the rendered player overlaps after they moved
Touched == {i \in 1..Len(enemies) :
               enemies[i].active /\ checkCollision(player, enemies'[i])}

\* C1: across ticks, key events, pause toggles and glitch timeouts the
\* player's health never increases; only resetGame raises it
C1_HealthNeverIncreases ==
    [][resetGame \/ player'.health <= player.health]_vars

\* C1 witness: the player has lost a health point to an enemy
C1_Witness == player.health = 2 /\ player.invulnerable > 0

\* C2: on a frame that runs the update phase victory is set iff the
\* rendered player is at x >= 1150 and y >= 450, gameOver iff its health
\* is <= 0; a flag that is true stays true until resetGame
C2_VictoryDefeatFlags ==
    [][ /\ UpdateFrame =>
            /\ gameState'.victory =
                   (gameState.victory \/ (player.x >= 1150 * PX /\ player.y >= 450 * PX))
            /\ gameState'.gameOver = (player.health <= 0)
        /\ resetGame \/ /\ gameState.victory => gameState'.victory
                        /\ gameState.gameOver => gameState'.gameOver ]_vars

\* C2 witness: victory was set with the player in the goal region
C2_Witness ==
    gameState.victory /\ ~gameState.gameOver /\ player.x >= 1150 * PX /\ player.y >= 450 * PX

\* C3: once victory is true no frame changes the player, an enemy, a
\* token, a power-up, the score, the token count or the elapsed time
C3_VictoryTerminal ==
    [][ (gameState.victory /\ frames' = frames + 1) =>
            /\ player' = player
            /\ enemies' = enemies
            /\ tokens' = tokens
            /\ powerUps' = powerUps
            /\ gameState'.score = gameState.score
            /\ gameState'.tokens = gameState.tokens
            /\ gameState'.time = gameState.time ]_vars

\* C4: while paused or gameOver a frame leaves the player, platforms,
\* tokens, power-ups, enemies, particles, score, token count and time
\* unchanged; only the screen shake decays
C4_IdleFrameFrozen ==
    [][ IdleFrame =>
            /\ player' = player
            /\ platforms' = platforms
            /\ tokens' = tokens
            /\ powerUps' = powerUps
            /\ enemies' = enemies
            /\ particles' = particles
            /\ gameState' = [gameState EXCEPT
                   !.screenShake = IF @ > 0 THEN @ - 1 ELSE 0] ]_vars

\* C4 witness: a frame has passed after gameOver was set: the shake has
\* decayed twice since the fall, the invulnerability window only once
C4_Witness ==
    gameState.gameOver /\ gameState.screenShake = 18 /\ player.invulnerable = 118

\* C5: a collected flag stays true until resetGame, and a step adds a
\* token's or power-up's value to the score only when its flag turns true
C5_CollectedOnce ==
    [][ resetGame \/
        /\ \A i \in 1..Len(tokens) : tokens[i].collected => tokens'[i].collected
        /\ \A i \in 1..Len(powerUps) : powerUps[i].collected => powerUps'[i].collected
        /\ gameState'.score = gameState.score + PickupScore
              + 100 * Cardinality({i \in 1..Len(enemies) :
                                      enemies[i].active /\ ~enemies'[i].active}) ]_vars

\* C5 witness: the player still overlaps a token it collected earlier, and
\* the score holds that token and the power-up next to it once each
C5_Witness ==
    /\ tokens[5].collected /\ powerUps[2].collected
    /\ checkCollision(player, tokens[5])
    /\ gameState.score = 210
    /\ gameState.time = 153

\* C6 as stated: between resets the dash cooldown and the invulnerability
\* counter never increase and are never negative
C6_CountersNeverIncrease ==
    [][ resetGame \/
        /\ player'.dashCooldown <= player.dashCooldown
        /\ player'.invulnerable <= player.invulnerable
        /\ player'.dashCooldown >= 0
        /\ player'.invulnerable >= 0 ]_vars

\* C6 amended: the counters are never negative; an update frame lowers
\* each by 1 down to 0 unless it re-arms it (dash cooldown 60, then
\* decremented, when shift is held at cooldown 0; invulnerability 120,
\* decremented after a fall, on a frame where health is lost); no other
\* step but resetGame changes them
C6_CountersDecayOrRearm ==
    [][ resetGame \/
        /\ player'.dashCooldown >= 0
        /\ player'.invulnerable >= 0
        /\ IF UpdateFrame
           THEN /\ player'.dashCooldown =
                       IF "shift" \in keys /\ player.dashCooldown = 0 THEN 59
                       ELSE IF player.dashCooldown > 0 THEN player.dashCooldown - 1 ELSE 0
                /\ IF player'.health < player.health
                   THEN player'.invulnerable \in {119, 120}
                   ELSE player'.invulnerable =
                            IF player.invulnerable > 0 THEN player.invulnerable - 1 ELSE 0
           ELSE /\ player'.dashCooldown = player.dashCooldown
                /\ player'.invulnerable = player.invulnerable ]_vars

\* C6 witness: a dash re-armed the cooldown and a later frame lowered it
C6_Witness == player.dashCooldown = 58

\* C7: every platform the player overlaps when it is tested gets one of
\* the four resolutions, after which the player no longer overlaps it
C7_EveryOverlapResolved ==
    [][ UpdateFrame =>
            LET log == updatePlayer(player, keys, platforms).log
            IN  \A k \in 1..Len(log) :
                    /\ log[k].resolution \in {"land", "below", "left", "right"}
                    /\ ~checkCollision(log[k].after, log[k].platform) ]_vars

\* C8: a dashing player with invulnerability 0 that overlaps an active
\* enemy deactivates it and scores exactly 100 for it, with no health lost
C8_DashDefeatsEnemy ==
    [][ (UpdateFrame /\ player.state = "dashing" /\ player.invulnerable = 0) =>
            /\ \A i \in Touched : ~enemies'[i].active
            /\ gameState'.score = gameState.score + 100 * Cardinality(Touched) + PickupScore
            /\ Touched # {} => player'.health = player.health ]_vars

\* C8 witness: the dash has defeated the magentoBot
C8_Witness ==
    ~enemies[1].active /\ gameState.score = 110 /\ player.health = 3

\* C9: a player that is not dashing, with invulnerability 0, overlapping
\* an active enemy loses exactly 1 health, gets invulnerability 120, the
\* damage state and a knock-back of 5 against its facing; the enemy stays
C9_ContactCostsOneHealth ==
    [][ (UpdateFrame /\ player.state # "dashing" /\ player.invulnerable = 0
           /\ Touched # {}) =>
            /\ player'.health = player.health - 1
            /\ player'.invulnerable = 120
            /\ player'.state = "damage"
            /\ player'.velocityX = IF player'.facing = "right" THEN -5 * PX ELSE 5 * PX
            /\ \A i \in Touched : enemies'[i].active ]_vars

\* C10: while the invulnerability counter is above 0, overlapping an
\* active enemy costs no health and does not deactivate the enemy
C10_InvulnerableIgnoresEnemies ==
    [][ (UpdateFrame /\ player.invulnerable > 0 /\ Touched # {}) =>
            /\ player'.health = player.health
            /\ \A i \in Touched : enemies'[i].active
            /\ gameState'.score = gameState.score + PickupScore ]_vars

\* C10 witness: the frame after a hit, still overlapping the magentoBot
C10_Witness ==
    /\ player.invulnerable = 119 /\ player.health = 2
    /\ enemies[1].active /\ checkCollision(player, enemies[1])

\* the platform tests of the frame's updatePlayer that found an overlap
Contacts == updatePlayer(player, keys, platforms).log

\* the vertical velocity a frame leaves when no jump fires: the jump cut,
\* then gravity
Falling(vy) ==
    (IF "w" \notin keys /\ vy < -500 THEN (IF vy >= 0 THEN vy \div 2 ELSE -((-vy) \div 2)) ELSE vy) + 80

\* C11: for an airborne player with coyote counter 0 and the double jump
\* unused, a pending jump press sets the vertical velocity to -15 (then
\* cut and gravity apply) and sets hasDoubleJumped; once hasDoubleJumped
\* is set, a jump press while still airborne gives no impulse
C11_SingleDoubleJump ==
    [][ (UpdateFrame /\ ~player.onGround /\ player.coyoteTime = 0) =>
            /\ (~player.hasDoubleJumped /\ player.jumpBuffer > 1) =>
                   /\ player'.hasDoubleJumped
                   /\ player'.jumpBuffer = 0
                   /\ \/ player'.velocityY = Falling(-1500)
                      \/ player'.velocityY = 0 /\ Contacts # <<>>
            /\ player.hasDoubleJumped =>
                   /\ player'.hasDoubleJumped
                   /\ player'.jumpBuffer = IF player.jumpBuffer > 0
                                           THEN player.jumpBuffer - 1 ELSE 0
                   /\ \/ player'.velocityY = Falling(player.velocityY)
                      \/ player'.velocityY = 0
                            /\ (Contacts # <<>> \/ player.y + Falling(player.velocityY) > 600 * PX) ]_vars

\* C11 witness: the double jump has fired in mid-air with the key held
C11_Witness ==
    /\ player.hasDoubleJumped /\ ~player.onGround
    /\ player.velocityY = -1420 /\ player.jumpBuffer = 0 /\ "w" \in keys

\* the player p stands on a normal platform: feet on its top, no
\* vertical velocity
Standing(p) ==
    /\ p.velocityY = 0
    /\ \E i \in 1..Len(platforms) :
          /\ platforms[i].type = "normal"
          /\ p.y + p.height = platforms[i].y
          /\ p.x < platforms[i].x + platforms[i].width
          /\ p.x + p.width > platforms[i].x

\* C12: a player standing on a normal platform, no key held and no jump
\* pending, horizontal velocity below the friction cut-off, settles within
\* two ticks: a tick that starts grounded leaves velocity (0, 0) and the
\* idle state; a tick that starts with onGround false lands the player
\* again, still without vertical velocity, so the next tick starts grounded
C12_RestSettles ==
    [][ (UpdateFrame /\ keys = {} /\ player.jumpBuffer <= 1 /\ Standing(player)
           /\ player.velocityX >= -11 /\ player.velocityX <= 11 /\ Touched = {}) =>
            /\ player'.velocityY = 0
            /\ Standing(player')
            /\ IF player.onGround
               THEN player'.velocityX = 0 /\ player'.state = "idle"
               ELSE /\ player'.onGround
                    /\ player'.velocityX * player'.velocityX
                          <= player.velocityX * player.velocityX
                    /\ player.velocityX = 0 => player'.velocityX = 0 ]_vars

\* C12 witness: the player that landed from the spawn point, no key
\* touched, is idle with velocity (0, 0) two frames later
C12_Witness ==
    /\ gameState.time = 17 /\ player.state = "idle"
    /\ player.velocityX = 0 /\ player.velocityY = 0 /\ player.y = 502 * PX

\* the uncollected tokens the rendered player overlaps
FirstOverlapped ==
    {i \in 1..Len(tokens) : ~tokens[i].collected /\ checkCollision(player, tokens[i])}

\* the particles of ps of the given type and colour at the centre of rect
BurstAt(ps, rect, type, color) ==
    {k \in 1..Len(ps) :
        /\ ps[k].x = rect.x + rect.width \div 2
        /\ ps[k].y = rect.y + rect.height \div 2
        /\ ps[k].type = type /\ ps[k].color = color}

\* C13: on the tick where the player first overlaps an uncollected token
\* of value v the score grows by v (next to what power-ups and defeated
\* enemies add on that tick), the token count by 1, the token's flag
\* turns true and a burst of 6 sparks appears at the token's centre
C13_TokenCollected ==
    [][ UpdateFrame =>
            /\ \A i \in FirstOverlapped : tokens'[i].collected
            /\ gameState'.tokens = gameState.tokens + Cardinality(FirstOverlapped)
            /\ gameState'.score = gameState.score
                  + SumOver([i \in 1..Len(tokens) |-> tokens[i].value], FirstOverlapped)
                  + 200 * Cardinality({i \in 1..Len(powerUps) :
                                          ~powerUps[i].collected /\ powerUps'[i].collected})
                  + 100 * Cardinality({i \in 1..Len(enemies) :
                                          enemies[i].active /\ ~enemies'[i].active})
            /\ \A i \in FirstOverlapped :
                  Cardinality(BurstAt(particles', tokens[i], "spark",
                                      IF tokens[i].type = "shopify" THEN "#00D4AA"
                                                                    ELSE "#FFD700"))
                     >= 6 + Cardinality(BurstAt(particles, tokens[i], "spark",
                                      IF tokens[i].type = "shopify" THEN "#00D4AA"
                                                                    ELSE "#FFD700")) ]_vars

\* C13 witness: the token at (320, 300), worth 10, has just been
\* collected next to the power-up, and its sparks are in the store
C13_Witness ==
    /\ tokens[5].collected /\ gameState.tokens = 1 /\ gameState.score = 210
    /\ BurstAt(particles, tokens[5], "spark", "#00D4AA") # {}

\* C14: the token count equals the number of collected currency-type
\* ("shopify") tokens: collecting a gem leaves it unchanged
C14_CountIsCurrencyCount ==
    gameState.tokens =
        Cardinality({i \in 1..Len(tokens) :
                        tokens[i].collected /\ tokens[i].type = "shopify"})

\* the state the C15 claim lists
Fresh ==
    /\ gameState.score = 0 /\ gameState.tokens = 0 /\ gameState.time = 0
    /\ ~gameState.paused /\ ~gameState.gameOver /\ ~gameState.victory
    /\ gameState.screenShake = 0
    /\ player.x = 100 * PX /\ player.y = 400 * PX
    /\ player.velocityX = 0 /\ player.velocityY = 0
    /\ player.health = 3
    /\ player.dashCooldown = 0 /\ player.coyoteTime = 0 /\ player.jumpBuffer = 0
    /\ player.invulnerable = 0
    /\ player.animationFrame = 0 /\ player.animationTimer = 0
    /\ \A i \in 1..Len(tokens) : ~tokens[i].collected
    /\ \A i \in 1..Len(powerUps) : ~powerUps[i].collected
    /\ \A i \in 1..Len(enemies) : enemies[i].active
    /\ particles = <<>>

\* C15: from any reachable state resetGame yields score, token count, time
\* and screen shake 0, the three flags false, the player at (100, 400)
\* with zero velocity, health 3 and all counters 0, every token and
\* power-up uncollected, every enemy active and no particles
C15_ResetRestores == [][resetGame => Fresh']_vars

\* C15 witness: a reset after two frames of play
C15_Witness == Fresh /\ frames = 2

\* the inactive enemies the rendered player overlaps
Ghosts == {i \in 1..Len(enemies) :
              ~enemies[i].active /\ checkCollision(player, enemies[i])}

\* C16: an inactive enemy stays inactive, with every field unchanged,
\* until resetGame; a tick on which the player overlaps only inactive
\* enemies, and does not fall, costs no health and adds no enemy score
C16_InactiveEnemySkipped ==
    [][ /\ \A i \in 1..Len(enemies) :
              ~enemies[i].active => (resetGame \/ enemies'[i] = enemies[i])
        /\ (UpdateFrame /\ Ghosts # {} /\ Touched = {}) =>
              /\ gameState'.score = gameState.score + PickupScore
              /\ \/ player'.health = player.health
                 \/ updatePlayer(player, keys, platforms).fell ]_vars

\* C16 witness: a tick has run with the player still over the magentoBot
\* its dash defeated on the tick before
C16_Witness ==
    /\ gameState.time = 123
    /\ ~enemies[1].active /\ checkCollision(player, enemies[1])
    /\ player.health = 3 /\ gameState.score = 110

\* the moving platforms of the level
Movers == {i \in 1..Len(platforms) : platforms[i].type = "moving"}

\* C17: every moving platform's x stays within [originalX, originalX +
\* moveRange], which is [950, 1050] for the level's platform, and a step
\* that moves it reverses its direction exactly when it arrives at a bound
C17_MovingPlatformInRange ==
    [][ \A i \in Movers :
            /\ platforms[i].x >= platforms[i].originalX
            /\ platforms[i].x <= platforms[i].originalX + platforms[i].moveRange
            /\ platforms'[i].x >= 950 * PX /\ platforms'[i].x <= 1050 * PX
            /\ platforms'[i].x # platforms[i].x =>
                  platforms'[i].moveDirection =
                      IF platforms'[i].x \in {950 * PX, 1050 * PX}
                      THEN -platforms[i].moveDirection
                      ELSE platforms[i].moveDirection ]_vars

\* C17 witness: the platform has arrived at its right bound and turned
C17_Witness ==
    /\ platforms[4].x = 1050 * PX /\ platforms[4].moveDirection = -1
    /\ gameState.time = 100

\* the condition the C18 claim states
Overlap(a, b) ==
    /\ a.x < b.x + b.width /\ a.x + a.width > b.x
    /\ a.y < b.y + b.height /\ a.y + a.height > b.y

\* the two rectangles share an edge line
Touching(a, b) ==
    \/ a.x + a.width = b.x \/ b.x + b.width = a.x
    \/ a.y + a.height = b.y \/ b.y + b.height = a.y

\* checkCollision on the pair (a, b): the stated condition, the same in
\* both argument orders, and false when the rectangles only touch
OverlapLaw(a, b) ==
    /\ checkCollision(a, b) = Overlap(a, b)
    /\ checkCollision(b, a) = checkCollision(a, b)
    /\ Touching(a, b) => ~checkCollision(a, b)

\* C18: checkCollision(a, b) is true iff a.x < b.x + b.width, a.x +
\* a.width > b.x, a.y < b.y + b.height and a.y + a.height > b.y, is
\* symmetric, and is false for rectangles that only touch; the frames
\* collect a token or power-up, and hurt the player, exactly on that
\* condition
C18_CollisionIsOverlap ==
    [][ UpdateFrame =>
            /\ \A i \in 1..Len(tokens) :
                  /\ OverlapLaw(player, tokens[i])
                  /\ tokens'[i].collected =
                        (tokens[i].collected \/ Overlap(player, tokens[i]))
            /\ \A i \in 1..Len(powerUps) :
                  /\ OverlapLaw(player, powerUps[i])
                  /\ powerUps'[i].collected =
                        (powerUps[i].collected \/ Overlap(player, powerUps[i]))
            /\ \A i \in 1..Len(platforms) : OverlapLaw(player, platforms[i])
            /\ \A i \in 1..Len(enemies) : OverlapLaw(player, enemies'[i])
            /\ (player.invulnerable = 0 /\ player.state # "dashing") =>
                  (player'.health < player.health)
                     = (\E i \in 1..Len(enemies) :
                           enemies[i].active /\ Overlap(player, enemies'[i])) ]_vars

\* C18 witness: a tick has run with the player's left edge on the
\* magentoBot's right edge, and the player is unhurt
C18_Witness ==
    /\ player.x = 40300 /\ enemies[1].x + enemies[1].width = 40300
    /\ player.y < enemies[1].y + enemies[1].height
    /\ player.y + player.height > enemies[1].y
    /\ player.health = 3 /\ frames = 1

\* C19: on a tick where the player's y after movement and platform
\* resolution exceeds 600 the player loses exactly one health point, is
\* at (100, 400) with velocity (0, 0) in the damage state, its
\* invulnerability counter is set to 120 (119 after the tick's decrement)
\* and the screen shake to 20 (19 when render decays a shake that was
\* already on)
C19_FallCostsOneHealth ==
    [][ (UpdateFrame /\ updatePlayer(player, keys, platforms).fell) =>
            /\ player'.health = player.health - 1
            /\ player'.x = 100 * PX /\ player'.y = 400 * PX
            /\ player'.velocityX = 0 /\ player'.velocityY = 0
            /\ player'.state = "damage"
            /\ player'.invulnerable = 119
            /\ gameState'.screenShake = IF gameState.screenShake > 0 THEN 19 ELSE 20 ]_vars

\* C19 witness: the player has just fallen out of the world with its
\* last health point
C19_Witness ==
    /\ frames = 1 /\ player.health = 0 /\ player.state = "damage"
    /\ player.x = 100 * PX /\ player.y = 400 * PX
    /\ player.invulnerable = 119 /\ gameState.screenShake = 20

\* C20: after every tick, and after an enemy's knock-back, the player's x
\* is within [0, 1200 - 32] and its y is at most 600
C20_PlayerInWorld ==
    /\ player.x >= 0
    /\ player.x <= (1200 - 32) * PX
    /\ player.y <= 600 * PX

\* C20 witness: a tick has pushed the player against the right wall
C20_Witness ==
    /\ frames > 0 /\ gameState.time > 225
    /\ player.x = (1200 - 32) * PX /\ player.velocityX > 0

\* the player the frame's Player Controller update produces
Fresh_Player == updatePlayer(player, keys, platforms).player

\* C21: within a tick the enemy AI tests the player the Player Controller
\* produced in that tick: an active enemy is defeated exactly when that
\* player is dashing, not invulnerable and overlaps the moved enemy
C21_EnemiesReadFreshPlayer ==
    [][ UpdateFrame =>
            \A i \in 1..Len(enemies) :
                enemies[i].active =>
                    (~enemies'[i].active) =
                        (/\ checkCollision(Fresh_Player, enemies'[i])
                         /\ Fresh_Player.invulnerable <= 0
                         /\ Fresh_Player.state = "dashing") ]_vars

\* the most particles one tick can spawn: one dash burst (8), one landing
\* (5), every token (6 each), every enemy (12 each), every power-up (10 each)
SpawnedPerTick ==
    8 + 5 + 6 * Len(InitTokens) + 12 * Len(InitEnemies) + 10 * Len(InitPowerUps)

\* the indices of the stored particles that have l ticks left to live
Aged(l) == {k \in 1..Len(particles) : particles[k].life = l}

PickedUp == {i \in 1..Len(powerUps) :
                ~powerUps[i].collected /\ checkCollision(player, powerUps[i])}

\* C23: collecting a power-up sets its collected flag and adds exactly 200
\* to the score (next to what tokens and defeated enemies add on that tick)
\* and nothing else: the token count grows only by the tokens collected, a
\* player that touches no enemy is exactly what the Player Controller made
\* of it, and no step ever changes a power-up's duration, type or place
C23_PowerUpScoresOnly ==
    [][ /\ \A i \in 1..Len(powerUps) :
              /\ powerUps'[i].duration = powerUps[i].duration
              /\ powerUps'[i].type = powerUps[i].type
              /\ powerUps'[i].x = powerUps[i].x /\ powerUps'[i].y = powerUps[i].y
        /\ UpdateFrame =>
              /\ \A i \in 1..Len(powerUps) :
                    powerUps'[i].collected = (powerUps[i].collected \/ i \in PickedUp)
              /\ gameState'.score = gameState.score + 200 * Cardinality(PickedUp)
                    + SumOver([i \in 1..Len(tokens) |-> tokens[i].value],
                              {i \in 1..Len(tokens) :
                                  ~tokens[i].collected /\ tokens'[i].collected})
                    + 100 * Cardinality({i \in 1..Len(enemies) :
                                            enemies[i].active /\ ~enemies'[i].active})
              /\ gameState'.tokens = gameState.tokens
                    + Cardinality({i \in 1..Len(tokens) :
                                      ~tokens[i].collected /\ tokens'[i].collected})
              /\ Touched = {} => player' = Fresh_Player ]_vars

\* C23 witness: the checkoutDash power-up at (350, 300) has been collected
\* by a falling player whose dash cooldown and health are untouched
C23_Witness ==
    /\ powerUps[2].collected /\ ~powerUps[1].collected
    /\ powerUps[2].duration = 0
    /\ player.dashCooldown = 0 /\ player.health = 3 /\ player.invulnerable = 0
    /\ player.hasDoubleJumped /\ player.velocityY > 0

\* the coyote counter, the double-jump-used flag and the jump-buffer counter
\* as the jump test of this frame finds them, and the outcome of the test
CoyoteAtTest ==
    IF player.onGround THEN 8
    ELSE IF player.coyoteTime > 0 THEN player.coyoteTime - 1 ELSE 0
UsedAtTest == IF player.onGround THEN FALSE ELSE player.hasDoubleJumped
BufferAtTest == IF player.jumpBuffer > 0 THEN player.jumpBuffer - 1 ELSE 0
JumpExecutes == BufferAtTest > 0 /\ (CoyoteAtTest > 0 \/ ~UsedAtTest)

\* C24: a jump executes on a tick iff after the tick's decrement the jump
\* buffer is > 0 and the coyote counter is > 0 or the double jump unused;
\* it sets the vertical velocity to -15 (then cut and gravity apply), clears
\* the grounded flag, zeroes both counters, sets the state to jumping and
\* marks the double jump used iff the coyote counter was 0; a jump press
\* sets the buffer to 8 and it counts down to 0 when no jump executes
C24_JumpExecution ==
    [][ /\ handleKeyDown("w") => player'.jumpBuffer = 8
        /\ UpdateFrame =>
              IF JumpExecutes
              THEN /\ player'.coyoteTime = 0
                   /\ player'.jumpBuffer = 0
                   /\ player'.hasDoubleJumped = (CoyoteAtTest = 0)
                   /\ ~player'.onGround
                   /\ \/ player'.velocityY = Falling(-1500)
                      \/ player'.velocityY = 0 /\ Contacts # <<>>
                   /\ \/ player'.state = "jumping"
                      \/ player'.state = "dashing"
                            /\ "shift" \in keys /\ player.dashCooldown = 0
                      \/ player'.state = "damage" /\ player'.health < player.health
              ELSE /\ player'.coyoteTime = CoyoteAtTest
                   /\ player'.jumpBuffer = BufferAtTest
                   /\ player'.hasDoubleJumped = UsedAtTest
                   /\ player.velocityY >= 0 => player'.velocityY >= 0 ]_vars

\* C24 witness: a jump press made within the coyote window has executed
\* without using the double jump
C24_Witness ==
    /\ ~player.hasDoubleJumped /\ ~player.onGround /\ player.coyoteTime = 0
    /\ player.jumpBuffer = 0 /\ player.velocityY = -1420 /\ player.state = "jumping"

\* C24 witness for the expiry: the press made while nothing could execute
\* it has run out, and the player is still falling
C24_Expired ==
    /\ player.hasDoubleJumped /\ player.jumpBuffer = 0 /\ gameState.time = 152
    /\ player.velocityY = 560 /\ keyEvents = 0

\* C25: a tick that starts grounded refreshes the coyote counter to 8 and
\* clears the double-jump-used flag (a jump executed on that tick then
\* zeroes the counter); a tick that starts airborne with a positive counter
\* lowers it by exactly 1 (or zeroes it by a jump); with the counter at 0
\* and the double jump used an airborne player gets no jump: the pending
\* press only counts down, the flag and the counter stay, and the vertical
\* velocity only follows the jump cut and gravity
C25_CoyoteCounter ==
    [][ UpdateFrame =>
            /\ player.onGround =>
                  /\ player'.coyoteTime = IF player.jumpBuffer > 1 THEN 0 ELSE 8
                  /\ ~player'.hasDoubleJumped
            /\ (~player.onGround /\ player.coyoteTime > 0) =>
                  player'.coyoteTime =
                      IF player.jumpBuffer > 1 THEN 0 ELSE player.coyoteTime - 1
            /\ (~player.onGround /\ player.coyoteTime = 0 /\ player.hasDoubleJumped) =>
                  /\ player'.coyoteTime = 0
                  /\ player'.hasDoubleJumped
                  /\ player'.jumpBuffer = BufferAtTest
                  /\ \/ player'.velocityY = Falling(player.velocityY)
                     \/ player'.velocityY = 0
                           /\ (Contacts # <<>> \/ player'.health < player.health) ]_vars

\* C25 witness: a jump press is pending in mid-air with the coyote counter
\* at 0 and the double jump used, and the player keeps falling
C25_Witness ==
    /\ ~player.onGround /\ player.coyoteTime = 0 /\ player.hasDoubleJumped
    /\ player.jumpBuffer = 1 /\ player.velocityY = 480 /\ gameState.time = 151

\* C25 witness for the refresh: the standing player's counter went to 7 on
\* the tick it started airborne and is back at 8 after the grounded tick
C25_Refreshed ==
    /\ gameState.time = 101 /\ player.coyoteTime = 8 /\ ~player.hasDoubleJumped
    /\ player.x = SPAWN_X * PX /\ keyEvents = 0

\* the dash sparks lying at the centre of the rendered player
DashSparks(ps) == BurstAt(ps, player, "spark", "#7C3AED")

\* C26: on a tick with the dash key held and the cooldown at 0 the
\* horizontal velocity becomes 12 in the facing direction, the state
\* dashing, the cooldown 60 (59 after the tick's decrement) and 8 sparks
\* appear at the player's centre; with the cooldown above 0 or the key up
\* nothing of this happens and the cooldown counts down by 1, so the next
\* activation is at least 60 ticks after the last one
C26_DashActivation ==
    [][ /\ UpdateFrame =>
              IF "shift" \in keys /\ player.dashCooldown = 0
              THEN /\ player'.dashCooldown = 59
                   /\ \/ player'.velocityX =
                            IF player'.facing = "right" THEN 1200 ELSE -1200
                      \/ Contacts # <<>>
                      \/ player'.health < player.health
                   /\ player'.state = "dashing" \/ player'.health < player.health
                   /\ Cardinality(DashSparks(particles'))
                         >= 8 + Cardinality(DashSparks(particles))
              ELSE /\ player'.dashCooldown = Max(player.dashCooldown - 1, 0)
                   /\ Abs(player'.velocityX) <= Max(Abs(player.velocityX), 500)
                   /\ player'.state = "dashing" => player.state = "dashing"
                   /\ Cardinality(DashSparks(particles'))
                         <= Cardinality(DashSparks(particles))
        /\ (~UpdateFrame /\ ~resetGame) => player'.dashCooldown = player.dashCooldown ]_vars

\* C26 witness: the dash to the left has just fired
C26_Witness ==
    /\ player.dashCooldown = 59 /\ player.state = "dashing"
    /\ player.velocityX = -1200 /\ player.facing = "left"
    /\ Len(particles) = 8 /\ particles[1].x = 43700 /\ particles[1].y = 42600

\* the player of this frame as the gravity step of updatePlayer finds it
AtGravity ==
    Dash(JumpCut(Jump(JumpBuffer(CoyoteTime(HandleInput(Animate(player), keys)))),
                 keys), keys)

\* C27: the player is airborne at the gravity step iff the tick started
\* airborne or a jump executed on it; only then the vertical velocity grows
\* by 0.8, and then a player that is not dashing gets the state jumping
\* while a dashing player keeps the state dashing; a grounded player's
\* velocity and state are left as the earlier steps made them
C27_GravityWhenAirborne ==
    [][ UpdateFrame =>
            /\ AtGravity.onGround = (player.onGround /\ ~JumpExecutes)
            /\ \/ player'.velocityY =
                     AtGravity.velocityY + (IF AtGravity.onGround THEN 0 ELSE 80)
               \/ player'.velocityY = 0
                     /\ (Contacts # <<>> \/ player'.health < player.health)
            /\ \/ player'.state =
                     IF AtGravity.onGround \/ AtGravity.state = "dashing"
                     THEN AtGravity.state ELSE "jumping"
               \/ player'.state = "damage" /\ player'.health < player.health ]_vars

\* C27 witness: the player that dashed on the ground has been through a
\* tick it started airborne and is still in the dashing state
C27_Witness ==
    /\ player.state = "dashing" /\ player.dashCooldown = 58
    /\ player.onGround /\ player.velocityY = 0 /\ player.coyoteTime = 7

\* the shuffling-bot stands glitched / walks and moves again
Glitched == /\ enemies[1].active /\ enemies[1].state = "damage"
            /\ enemies[1].velocityX = 0
Resumed == enemies[1].state = "walk" /\ enemies[1].velocityX # 0

C28_StoppedBotStaysStopped ==
    [][enemies[1].velocityX = 0 => enemies'[1].velocityX = 0]_vars

\* the enemy e is at or beyond a world edge / its velocity points back into
\* the playfield from the edge it is at
AtEdge(e) == e.x <= 0 \/ e.x >= CANVAS_WIDTH * PX - e.width
PointsInward(e) ==
    /\ e.x <= 0 => e.velocityX > 0
    /\ e.x >= CANVAS_WIDTH * PX - e.width => e.velocityX < 0

\* C29: whenever the x of an active shuffling-bot or lurching-zombie after
\* its movement is <= 0 or >= 1200 - width, its velocity at the end of the
\* tick points back into the playfield
C29_EdgeReversal ==
    [][ UpdateFrame =>
            \A i \in 1..Len(enemies) :
                (/\ enemies[i].active
                 /\ enemies[i].type \in {"magentoBot", "wooZombie"}
                 /\ AtEdge(enemies'[i])) => PointsInward(enemies'[i]) ]_vars

\* the amount the shake events of this frame leave: 15 when the dashing
\* player defeats an enemy, 25 when an enemy hurts the player, 20 when the
\* player only fell, and the shake that was left when nothing happened
ShakeSet ==
    IF Touched # {} /\ player.invulnerable <= 0
    THEN (IF player.state = "dashing" THEN 15 ELSE 25)
    ELSE IF updatePlayer(player, keys, platforms).fell THEN 20
    ELSE gameState.screenShake

\* C30: a shake event overwrites the screen shake with its own amount and
\* never adds to it: after a frame the shake is the amount of the frame's
\* last event, or what was left when there was none, decayed by 1 when the
\* rendered shake was above 0; it is always within 0..25 and no step but a
\* frame or a reset changes it
C30_ShakeOverwrites ==
    [][ /\ gameState'.screenShake \in 0..25
        /\ UpdateFrame =>
              gameState'.screenShake =
                  IF gameState.screenShake > 0 THEN Max(0, ShakeSet - 1) ELSE ShakeSet
        /\ IdleFrame => gameState'.screenShake = Max(0, gameState.screenShake - 1)
        /\ (frames' = frames /\ ~resetGame) =>
              gameState'.screenShake = gameState.screenShake ]_vars

\* C30 witness: two enemies hurt the player on one tick and the shake is 25
C30_Witness ==
    /\ gameState.screenShake = 25 /\ player.health = 1
    /\ player.invulnerable = 120 /\ gameState.time = 702

\* the stored particles that outlive one more advance
Surviving == SelectSeq(particles, LAMBDA q : q.life > 1)

\* C31: every stored particle has 0 < life <= 60 of maxLife 60; an update
\* tick keeps, in order, exactly the particles with more than 1 tick left,
\* each with its life lowered by exactly 1, and appends the particles
\* spawned on that tick, created with life 60 and advanced at most once
C31_ParticleLife ==
    [][ /\ \A k \in 1..Len(particles') :
              /\ particles'[k].life \in 1..60
              /\ particles'[k].maxLife = 60
        /\ UpdateFrame =>
              /\ Len(particles') >= Len(Surviving)
              /\ \A k \in 1..Len(Surviving) :
                    particles'[k] = [Surviving[k] EXCEPT !.life = @ - 1]
              /\ \A k \in (Len(Surviving) + 1)..Len(particles') :
                    particles'[k].life \in {59, 60} ]_vars

\* C31 witness: dust on its last tick lies next to dust raised this tick
C31_Witness ==
    /\ Len(particles) = 150
    /\ particles[1].life = 1 /\ particles[1].type = "dust"
    /\ particles[150].life = 59

\* C32: in every reachable state the player's health is within 0..3
C32_HealthInRange == player.health \in 0..3

\* C33: no tick lowers the player's health by more than 1
C33_OneHealthPerTick ==
    [][UpdateFrame => player'.health >= player.health - 1]_vars

\* C34: while the invulnerability counter is above 0 no tick lowers the
\* player's health
C34_InvulnerableKeepsHealth ==
    [][(UpdateFrame /\ player.invulnerable > 0) => player'.health >= player.health]_vars

\* C35: in no reachable state are gameOver and victory both true
C35_OutcomesExclusive == ~(gameState.gameOver /\ gameState.victory)

\* what the collected tokens, the collected power-ups and the defeated
\* enemies of a state are worth
Earned ==
    SumOver([i \in 1..Len(tokens) |-> tokens[i].value],
            {i \in 1..Len(tokens) : tokens[i].collected})
    + 200 * Cardinality({i \in 1..Len(powerUps) : powerUps[i].collected})
    + 100 * Cardinality({i \in 1..Len(enemies) : ~enemies[i].active})

\* C36: in every reachable state the score is the sum of the values of the
\* collected tokens plus 200 per collected power-up plus 100 per inactive
\* enemy, and so at most 840 in this level
C36_ScoreIsEarned == gameState.score = Earned /\ gameState.score <= 840

\* C36 witness: the score holds the token collected earlier and the
\* shuffling-bot the dash defeated
C36_Witness ==
    /\ tokens[1].collected /\ ~enemies[1].active
    /\ \A i \in 1..Len(powerUps) : ~powerUps[i].collected
    /\ gameState.score = 110

\* the jumps a player with coyote counter coy and double-jump-used flag
\* used can still execute before it is grounded again
JumpsLeft(coy, used) == (IF coy > 0 THEN 1 ELSE 0) + (IF used THEN 0 ELSE 1)

\* C37: between two consecutive ticks that start grounded at most two
\* jumps execute: a tick that starts grounded leaves at most two jumps, a
\* tick that starts airborne never leaves more than it found, every
\* executed jump takes one of them, and no key event gives one back
C37_TwoJumpsPerAirtime ==
    [][ /\ UpdateFrame =>
              LET before == IF player.onGround THEN 2
                            ELSE JumpsLeft(player.coyoteTime, player.hasDoubleJumped)
                  after == JumpsLeft(player'.coyoteTime, player'.hasDoubleJumped)
              IN  /\ after <= before
                  /\ JumpExecutes => (before >= 1 /\ after <= before - 1)
        /\ (frames' = frames /\ ~resetGame) =>
              /\ player'.coyoteTime = player.coyoteTime
              /\ player'.hasDoubleJumped = player.hasDoubleJumped
              /\ player'.onGround = player.onGround ]_vars

\* C37 witness: the ground jump and the double jump have both executed on
\* two ticks in a row and no jump is left
C37_Witness ==
    /\ player.hasDoubleJumped /\ player.coyoteTime = 0 /\ ~player.onGround
    /\ player.y = 47360 /\ player.velocityY = -1420 /\ gameState.time = 101

\* C38: a player that stands on a normal platform, at rest, with no key
\* held and no jump pending, ends every tick grounded and idle, and the
\* tick spawns no landing dust
C38_LandedStaysGrounded ==
    [][ (UpdateFrame /\ keys = {} /\ player.jumpBuffer <= 1 /\ Standing(player)
           /\ player.velocityX = 0 /\ Touched = {}) =>
            /\ player'.onGround
            /\ player'.state = "idle"
            /\ \A k \in 1..Len(particles') :
                  particles'[k].type = "dust" => particles'[k].life < 59 ]_vars

\* C39: resetGame puts every enemy back at its level-load position,
\* velocity and float phase and every platform at its level-load x and
\* direction, so that the state after a reset is the level-load state
C39_ResetIsLevelLoad ==
    [][ resetGame =>
            /\ \A i \in 1..Len(enemies) :
                  /\ enemies'[i].x = InitEnemies[i].x
                  /\ enemies'[i].y = InitEnemies[i].y
                  /\ enemies'[i].velocityX = InitEnemies[i].velocityX
                  /\ enemies'[i].floatOffset = InitEnemies[i].floatOffset
            /\ \A i \in 1..Len(platforms) :
                  /\ platforms'[i].x = InitPlatforms[i].x
                  /\ platforms'[i].moveDirection = InitPlatforms[i].moveDirection ]_vars

====
